---- MODULE Spec2Model ----
(***************************************************************************)
(* Model of the moderation and auto-reply pipeline of fastapi-post-ai.     *)
(*                                                                         *)
(* The repository holds two implementations of each half of the pipeline:  *)
(*   moderation : app/services/content_moderation.py  moderate_content     *)
(*                app/services.py  ContentModerationService (the object    *)
(*                the routers call: two arguments, dict result)            *)
(*   auto-reply : app/services/auto_reply.py  schedule_auto_reply (an      *)
(*                asyncio coroutine with the duplicate guard)              *)
(*                app/background.py  generate_auto_reply (the Celery task  *)
(*                the comments router schedules)                           *)
(* All four are modelled, each from its own source.                        *)
(***************************************************************************)
EXTENDS Integers, Sequences, FiniteSets, TLC

VARIABLES settings, users, posts, comments, nextPostId, nextCommentId, now,
          jobs, tasks, inflight, resp, call

vars == <<settings, users, posts, comments, nextPostId, nextCommentId, now,
          jobs, tasks, inflight, resp, call>>

dbVars == <<posts, comments, nextPostId, nextCommentId>>

(***************************************************************************)
(* Bounds of the model.                                                    *)
(***************************************************************************)
MaxTokens == 3
MaxPosts == 2
MaxComments == 4
MaxJobs == 2
MaxTasks == 1
MaxTime == 2
MaxDelay == 1

(***************************************************************************)
(* Python helpers.                                                         *)
(***************************************************************************)
\* dict.get(key, default)
Get(d, k, default) == IF k \in DOMAIN d THEN d[k] ELSE default

\* dict.setdefault(key, default), as the dict it leaves behind
SetDefault(d, k, default) ==
    IF k \in DOMAIN d THEN d
    ELSE [x \in (DOMAIN d) \cup {k} |-> IF x = k THEN default ELSE d[x]]

\* "needle in haystack" for texts held as sequences of words
Contains(hay, needle) ==
    \E i \in 0..(Len(hay) - Len(needle)) :
        \A j \in 1..Len(needle) : hay[i + j] = needle[j]

SeqsUpTo(S, n) == UNION {[1..k -> S] : k \in 0..n}

(***************************************************************************)
(* app/services/content_moderation.py: moderate_content(text)              *)
(* Confidence values are held in hundredths (0.5 is 50).                   *)
(***************************************************************************)
ModerationResult(is_appropriate, confidence, issues, severity) ==
    [is_appropriate |-> is_appropriate, confidence |-> confidence,
     issues |-> issues, severity |-> severity]

JsonKeys == {"flagged", "confidence", "issues", "severity"}

JsonFull == [flagged : BOOLEAN, confidence : {88, 95},
             issues : {<<>>, <<"profanity", "hate_speech">>},
             severity : {"none", "high"}]

\* the JSON objects the remote service may answer with: any subset of the
\* four fields may be missing
JsonObjects == {[k \in S |-> full[k]] : full \in JsonFull, S \in SUBSET JsonKeys}

\* the ways the httpx call inside the try block raises: the request itself,
\* the timeout=10, raise_for_status(), response.json() on a body that is not
\* JSON, and data.get on a JSON body that is not an object
HttpFailures == {"network_error", "timeout", "bad_status", "invalid_json", "non_object"}

HttpOutcomes == [kind : HttpFailures] \cup [kind : {"ok"}, data : JsonObjects]

\* the result and the number of external calls made
moderate_content_flipped(api_key, ext) ==
    IF ~api_key
    THEN [result |-> ModerationResult(TRUE, 100, <<>>, "none"), calls |-> 0]
    ELSE IF ext.kind # "ok"
    THEN [result |-> ModerationResult(TRUE, 50, <<"moderation_error">>, "unknown"),
          calls |-> 1]
    ELSE [result |-> ModerationResult(Get(ext.data, "flagged", FALSE),
                                      Get(ext.data, "confidence", 100),
                                      Get(ext.data, "issues", <<>>),
                                      Get(ext.data, "severity", "none")),
          calls |-> 1]

moderate_content(api_key, ext) ==
    IF ~api_key
    THEN [result |-> ModerationResult(TRUE, 100, <<>>, "none"), calls |-> 0]
    ELSE IF ext.kind # "ok"
    THEN [result |-> ModerationResult(TRUE, 50, <<"moderation_error">>, "unknown"),
          calls |-> 1]
    ELSE [result |-> ModerationResult(~Get(ext.data, "flagged", FALSE),
                                      Get(ext.data, "confidence", 100),
                                      Get(ext.data, "issues", <<>>),
                                      Get(ext.data, "severity", "none")),
          calls |-> 1]

(***************************************************************************)
(* app/services.py: ContentModerationService                               *)
(*                                                                         *)
(* The model's answer is a text, held as a sequence of tokens.  "{" and    *)
(* "}" are the braces the regular expression looks for; a key token such   *)
(* as "ia:false" stands for the member  "is_appropriate": false ; the      *)
(* other tokens are plain words.                                           *)
(***************************************************************************)
KeyTokens == {"ia:true", "ia:false", "conf:90", "iss:spam", "sev:high"}
WordTokens == {"junk", "inappropriate", "acceptable"}
Tokens == {"{", "}"} \cup KeyTokens \cup WordTokens

Texts == SeqsUpTo(Tokens, MaxTokens)

\* the member a key token stands for
TokenKey(t) ==
    CASE t \in {"ia:true", "ia:false"} -> "is_appropriate"
      [] t = "conf:90" -> "confidence"
      [] t = "iss:spam" -> "issues"
      [] t = "sev:high" -> "severity"

TokenValue(t) ==
    CASE t = "ia:true" -> TRUE
      [] t = "ia:false" -> FALSE
      [] t = "conf:90" -> 90
      [] t = "iss:spam" -> <<"spam">>
      [] t = "sev:high" -> "high"

\* the keywords of _fallback_parsing that occur in the lower-cased token:
\* "appropriate" is a substring of "inappropriate" and of "is_appropriate"
KeywordsIn(t) ==
    CASE t = "inappropriate" -> {"inappropriate", "appropriate"}
      [] t = "acceptable" -> {"acceptable"}
      [] t \in {"ia:true", "ia:false"} -> {"appropriate"}
      [] OTHER -> {}

inappropriate_keywords == {"inappropriate", "violation", "block", "reject"}
appropriate_keywords == {"appropriate", "acceptable", "pass", "allow"}

TextKeywords(response) == UNION {KeywordsIn(response[i]) : i \in 1..Len(response)}

\* re.search(r'\{.*\}', response, re.DOTALL): greedy, from the first "{"
\* that has a "}" after it to the last "}"; <<0, 0>> when there is no match
json_match(response) ==
    LET opens == {i \in 1..Len(response) : response[i] = "{"}
        closes == {i \in 1..Len(response) : response[i] = "}"}
    IN  IF opens = {} \/ closes = {} THEN <<0, 0>>
        ELSE LET first == CHOOSE i \in opens : \A k \in opens : i <= k
                 last == CHOOSE i \in closes : \A k \in closes : k <= i
             IN  IF first < last THEN <<first, last>> ELSE <<0, 0>>

\* the members between the braces of a match
Members(response, m) == SubSeq(response, m[1] + 1, m[2] - 1)

\* json.loads raises unless everything between the braces is a member
json_valid(members) == \A i \in 1..Len(members) : members[i] \in KeyTokens

\* json.loads: a repeated key keeps its last value
json_loads(members) ==
    LET keys == {TokenKey(members[i]) : i \in 1..Len(members)}
        lastOf(k) == CHOOSE i \in 1..Len(members) :
                         /\ TokenKey(members[i]) = k
                         /\ \A j \in 1..Len(members) : TokenKey(members[j]) = k => j <= i
    IN  [k \in keys |-> TokenValue(members[lastOf(k)])]

_fallback_parsing(response) ==
    LET found == TextKeywords(response)
        is_appropriate == IF found \cap inappropriate_keywords # {} THEN FALSE
                          ELSE found \cap appropriate_keywords # {}
    IN  [is_appropriate |-> is_appropriate, confidence |-> 30,
         issues |-> <<"Fallback moderation used">>, severity |-> "low"]

ParsingError ==
    [is_appropriate |-> TRUE, confidence |-> 50,
     issues |-> <<"Parsing error">>, severity |-> "low"]

_parse_moderation_response(response) ==
    LET m == json_match(response)
    IN  IF m # <<0, 0>> /\ ~json_valid(Members(response, m)) THEN ParsingError
        ELSE LET result == IF m # <<0, 0>> THEN json_loads(Members(response, m))
                           ELSE _fallback_parsing(response)
             IN  SetDefault(SetDefault(SetDefault(SetDefault(result,
                     "is_appropriate", TRUE), "confidence", 50),
                     "issues", <<>>), "severity", "low")

\* what self.model.generate_content(prompt) does: it raises, or answers a text
AiFailures == {"raise"}
AiOutcomes == [kind : AiFailures] \cup [kind : {"text"}, text : Texts]

ModerationDisabled ==
    [is_appropriate |-> TRUE, confidence |-> 100, issues |-> <<>>, moderated |-> FALSE]

ModerationUnavailable ==
    [is_appropriate |-> TRUE, confidence |-> 50,
     issues |-> <<"Moderation service unavailable">>, moderated |-> FALSE]

\* ContentModerationService.moderate_content: the result and the number of
\* external calls made
service_moderate_content(moderation_enabled, ext) ==
    IF ~moderation_enabled THEN [result |-> ModerationDisabled, calls |-> 0]
    ELSE IF ext.kind = "raise" THEN [result |-> ModerationUnavailable, calls |-> 1]
    ELSE [result |-> _parse_moderation_response(ext.text), calls |-> 1]

\* ContentModerationService.__init__: enabled needs the setting and the model,
\* and the model exists only with an API key
moderation_enabled(s) == s.MODERATION_ENABLED /\ s.GOOGLE_AI_API_KEY

(***************************************************************************)
(* The database (app/models.py).  posts and comments are functions from    *)
(* the ids of the rows that exist to the rows.  A text column is held as a *)
(* sequence of pieces; an auto-reply of services/auto_reply.py starts with *)
(* the piece "[Auto-reply]".                                               *)
(***************************************************************************)
MaxUsers == 2
MaxRequests == 2

Users == {1, 2}

Post(title, content, author_id, auto_reply_enabled, auto_reply_delay) ==
    [title |-> title, content |-> content, author_id |-> author_id,
     auto_reply_enabled |-> auto_reply_enabled, auto_reply_delay |-> auto_reply_delay]

\* created_at = Column(DateTime, default=datetime.utcnow): the wall clock as
\* read when the row is inserted
Comment(content, author_id, post_id, is_blocked) ==
    [content |-> content, author_id |-> author_id, post_id |-> post_id,
     is_blocked |-> is_blocked, created_at |-> now]

\* an insert after which the table holds the new row only
Insert_replacing(table, id, row) == [x \in {id} |-> row]

\* db.add(row); await db.commit(): the row gets the next id of its table
Insert(table, id, row) ==
    [x \in (DOMAIN table) \cup {id} |-> IF x = id THEN row ELSE table[x]]

Remove(table, ids) == [x \in (DOMAIN table) \ ids |-> table[x]]

\* relationship("Comment", back_populates="post", cascade="all, delete-orphan")
CommentsOf(post_id) == {c \in DOMAIN comments : comments[c].post_id = post_id}

\* the names app/crud.py defines
crud_functions ==
    {"get_user_by_email", "get_user_by_id", "create_user", "update_user",
     "create_post", "get_post_by_id", "get_posts", "update_post", "delete_post",
     "create_comment", "get_comment_by_id", "get_comments_by_post",
     "update_comment", "delete_comment", "block_comment",
     "get_comments_daily_breakdown"}

\* crud.delete_post(db, post_id, user_id): TRUE when it deleted the post
delete_post_allowed(post_id, user_id) ==
    post_id \in DOMAIN posts /\ posts[post_id].author_id = user_id

\* crud.delete_comment(db, comment_id, user_id)
delete_comment_allowed(comment_id, user_id) ==
    comment_id \in DOMAIN comments /\ comments[comment_id].author_id = user_id

(***************************************************************************)
(* app/services/auto_reply.py                                              *)
(***************************************************************************)
Whitespace == {" "}

\* str.strip(chars) on a text held as a sequence of characters
strip(s, chars) ==
    LET keep == {i \in 1..Len(s) : s[i] \notin chars}
    IN  IF keep = {} THEN <<>>
        ELSE LET lo == CHOOSE i \in keep : \A k \in keep : i <= k
                 hi == CHOOSE i \in keep : \A k \in keep : k <= i
             IN  SubSeq(s, lo, hi)

ThankYouForYourComment == <<"Thank you for your comment!">>

\* the answers of the generation service: the request raises, or the body
\* holds a candidate text, or it holds none (the .get chain's "Thank you!")
GenerationFailures == {"network_error", "timeout", "bad_status", "invalid_json"}
CandidateTexts == {<<"Thanks for reading!">>, <<" ", "Thanks for reading!", " ">>, <<" ">>}
GenerationOutcomes ==
    [kind : GenerationFailures] \cup [kind : {"no_candidate"}]
        \cup [kind : {"ok"}, text : CandidateTexts]

\* generate_auto_reply(post, comment)
generate_auto_reply(api_key, ext) ==
    IF ~api_key THEN ThankYouForYourComment
    ELSE IF ext.kind \in GenerationFailures THEN ThankYouForYourComment
    ELSE IF ext.kind = "no_candidate" THEN strip(<<"Thank you!">>, Whitespace)
    ELSE strip(ext.text, Whitespace)

\* f"[Auto-reply] {reply_text}"
AutoReplyContent(reply_text) == <<"[Auto-reply]", " ">> \o reply_text

\* Comment.content.like("[Auto-reply]%")
LikeAutoReply(content) == Len(content) >= 1 /\ content[1] = "[Auto-reply]"

\* the existence query of schedule_auto_reply, lines 49-54
existing_auto_reply(post_id, author_id, created_at) ==
    {c \in DOMAIN comments :
        /\ comments[c].post_id = post_id
        /\ comments[c].author_id = author_id
        /\ LikeAutoReply(comments[c].content)
        /\ comments[c].created_at > created_at}

\* a run of the coroutine schedule_auto_reply(post_id, comment_id, delay).
\* started and prior are history: the runs for the same pair that had posted
\* when this run woke up, and whether the reply of one of them was still
\* stored when this run queried.
NewJob(post_id, comment_id, delay) ==
    [post_id |-> post_id, comment_id |-> comment_id, delay |-> delay,
     scheduled_at |-> now, pc |-> "sleep",
     post_found |-> FALSE, post_author |-> 0,
     comment_found |-> FALSE, comment_created_at |-> 0,
     outcome |-> "running", created |-> 0,
     started |-> {}, prior |-> FALSE,
     post_enabled |-> FALSE, comment_blocked |-> FALSE, generator |-> "none"]

Finish(job, outcome, created) ==
    [job EXCEPT !.pc = "done", !.outcome = outcome, !.created = created]

\* what a job is scheduled for: a stored comment of a user, with its post
\* (comments.py lines 100-105 pass the comment just stored and its post)
Trigger(post_id, comment_id) ==
    /\ comment_id \in DOMAIN comments
    /\ comments[comment_id].post_id = post_id
    /\ \A k \in DOMAIN jobs : jobs[k].created # comment_id

\* schedule_auto_reply is called (line 38): the coroutine starts and sleeps
ScheduleAutoReply(post_id, comment_id, delay) ==
    /\ Cardinality(DOMAIN jobs) < MaxJobs
    /\ Trigger(post_id, comment_id)
    /\ jobs' = Insert(jobs, Cardinality(DOMAIN jobs) + 1, NewJob(post_id, comment_id, delay))
    /\ UNCHANGED <<settings, users, dbVars, now, tasks, inflight, resp, call>>

\* await asyncio.sleep(delay) returns (line 42)
JobWake(j) ==
    /\ jobs[j].pc = "sleep"
    /\ now >= jobs[j].scheduled_at + jobs[j].delay
    /\ jobs' = [jobs EXCEPT ![j].pc = "get_post",
                   ![j].started = {k \in DOMAIN jobs :
                                      /\ k # j
                                      /\ jobs[k].post_id = jobs[j].post_id
                                      /\ jobs[k].comment_id = jobs[j].comment_id
                                      /\ jobs[k].pc = "done"
                                      /\ jobs[k].outcome = "posted"}]
    /\ UNCHANGED <<settings, users, dbVars, now, tasks, inflight, resp, call>>

\* post = await db.get(Post, post_id) (line 44)
JobGetPost(j) ==
    /\ jobs[j].pc = "get_post"
    /\ LET p == jobs[j].post_id
       IN  jobs' = [jobs EXCEPT ![j].pc = "get_comment",
                       ![j].post_found = p \in DOMAIN posts,
                       ![j].post_enabled = p \in DOMAIN posts /\ posts[p].auto_reply_enabled,
                       ![j].post_author = IF p \in DOMAIN posts
                                          THEN posts[p].author_id ELSE 0]
    /\ UNCHANGED <<settings, users, dbVars, now, tasks, inflight, resp, call>>

\* comment = await db.get(Comment, comment_id); if not post or not comment:
\* return (lines 45-47)
JobGetComment(j) ==
    /\ jobs[j].pc = "get_comment"
    /\ LET c == jobs[j].comment_id
           found == c \in DOMAIN comments
           got == [jobs[j] EXCEPT !.comment_found = found,
                       !.comment_blocked = found /\ comments[c].is_blocked,
                       !.comment_created_at = IF found THEN comments[c].created_at ELSE 0]
       IN  jobs' = [jobs EXCEPT ![j] =
                       IF ~got.post_found \/ ~got.comment_found
                       THEN Finish(got, "target_gone", 0)
                       ELSE [got EXCEPT !.pc = "query"]]
    /\ UNCHANGED <<settings, users, dbVars, now, tasks, inflight, resp, call>>

\* existing = await db.execute(select(...)); if existing.scalars().first():
\* return (lines 49-56)
JobQuery(j) ==
    /\ jobs[j].pc = "query"
    /\ LET job == [jobs[j] EXCEPT !.prior =
                      \E k \in jobs[j].started : jobs[k].created \in DOMAIN comments]
       IN  jobs' = [jobs EXCEPT ![j] =
                       IF existing_auto_reply(job.post_id, job.post_author,
                                              job.comment_created_at) # {}
                       THEN Finish(job, "already_replied", 0)
                       ELSE [job EXCEPT !.pc = "reply"]]
    /\ UNCHANGED <<settings, users, dbVars, now, tasks, inflight, resp, call>>

\* what the generator did in a run, kept as history: it was not configured,
\* the call failed, or the kind of the service's answer
Generator(ext) ==
    IF ~settings.GOOGLE_AI_API_KEY THEN "unconfigured"
    ELSE IF ext.kind \in GenerationFailures THEN "failed"
    ELSE ext.kind

\* reply_text = await generate_auto_reply(post, comment); db.add(auto_reply);
\* await db.commit() (lines 57-66).  The generation call reads and writes no
\* shared state, so it is taken together with the insert that follows it.
\* SQLite (the configured DATABASE_URL) does not enforce the foreign key, so
\* the insert succeeds whether or not the post still exists.
JobReply(j, ext) ==
    /\ jobs[j].pc = "reply"
    /\ nextCommentId <= MaxComments
    /\ LET reply_text == generate_auto_reply(settings.GOOGLE_AI_API_KEY, ext)
           auto_reply == Comment(AutoReplyContent(reply_text), jobs[j].post_author,
                                 jobs[j].post_id, FALSE)
       IN  /\ comments' = Insert(comments, nextCommentId, auto_reply)
           /\ nextCommentId' = nextCommentId + 1
           /\ jobs' = [jobs EXCEPT ![j] =
                          Finish([jobs[j] EXCEPT !.generator = Generator(ext)],
                                 "posted", nextCommentId)]
    /\ UNCHANGED <<settings, users, posts, nextPostId, now, tasks, inflight, resp, call>>

\* datetime.utcnow() and asyncio's clock move on
Tick ==
    /\ now < MaxTime
    /\ now' = now + 1
    /\ UNCHANGED <<settings, users, dbVars, jobs, tasks, inflight, resp, call>>

\* the times at which something that waits becomes due: the end of a
\* coroutine's sleep, the eta of a queued or retried task
DueTimes ==
    {jobs[j].scheduled_at + jobs[j].delay : j \in {k \in DOMAIN jobs : jobs[k].pc = "sleep"}}
        \cup {tasks[t].eta : t \in {k \in DOMAIN tasks :
                                        tasks[k].state \in {"PENDING", "RETRY"}}}

\* time passes until the next of them
Elapse ==
    /\ \E due \in DueTimes : due > now
    /\ now' = CHOOSE due \in DueTimes : due > now /\ \A d \in DueTimes : d > now => due <= d
    /\ UNCHANGED <<settings, users, dbVars, jobs, tasks, inflight, resp, call>>

(***************************************************************************)
(* app/services.py: AutoReplyService, the generator app/background.py      *)
(* calls.  A reply is held as a sequence of characters.                    *)
(***************************************************************************)
ReplyLimit == 500
ReplyKept == 497

\* AutoReplyService._clean_reply
_clean_reply(reply) ==
    LET stripped == strip(strip(strip(reply, Whitespace), {"\""}), {"'"})
    IN  IF Len(stripped) > ReplyLimit
        THEN SubSeq(stripped, 1, ReplyKept) \o <<".", ".", ".">>
        ELSE stripped

RawReplies == {<<>>, <<" ">>, <<"T", "h", "x">>, <<"\"", "T", "h", "x", "\"">>}
ReplyOutcomes == [kind : AiFailures] \cup [kind : {"text"}, text : RawReplies]

\* AutoReplyService.__init__ and generate_reply
auto_reply_enabled(s) == s.AUTO_REPLY_ENABLED /\ s.GOOGLE_AI_API_KEY

generate_reply(enabled, ext) ==
    IF ~enabled THEN <<>>
    ELSE IF ext.kind = "raise" THEN <<>>
    ELSE _clean_reply(ext.text)

(***************************************************************************)
(* app/background.py: the Celery task                                      *)
(***************************************************************************)
RetryCountdown == 60
MaxRetries == 3

Failed(error) == [success |-> FALSE, error |-> error]

\* the None schedule_auto_reply returns at line 179; task ids start at 1
None == 0

\* crud.create_comment(db, comment_create, author_id, post_id) as called: it
\* raises TypeError when author_id and post_id are not passed, and
\* AttributeError when comment_create is a plain dict, which has no .dict()
crud_create_comment_error(arg_kind, n_args) ==
    IF n_args < 4 THEN "TypeError"
    ELSE IF arg_kind # "CommentCreate" THEN "AttributeError"
    ELSE "none"

\* _generate_auto_reply_async(comment_id, post_id, delay_seconds, async_session):
\* the dict it returns.  Every exception raised inside its try block is
\* caught at line 129 and turned into a failure result.  crud has neither
\* get_comment nor get_post, so the first statement of the block raises.
_generate_auto_reply_async(comment_id, post_id, ext) ==
    IF "get_comment" \notin crud_functions THEN Failed("AttributeError")
    ELSE IF comment_id \notin DOMAIN comments THEN Failed("Comment not found")
    ELSE IF "get_post" \notin crud_functions THEN Failed("AttributeError")
    ELSE IF post_id \notin DOMAIN posts THEN Failed("Post not found")
    ELSE IF ~posts[post_id].auto_reply_enabled THEN Failed("Auto-reply disabled")
    ELSE IF comments[comment_id].is_blocked THEN Failed("Comment blocked")
    ELSE IF generate_reply(auto_reply_enabled(settings), ext) = <<>>
    THEN Failed("Failed to generate reply")
    ELSE Failed(crud_create_comment_error("dict", 2))

\* the exceptions raised inside the try block, as the errors of the results
\* line 131 builds from them
Exceptions == {"AttributeError", "TypeError"}

\* what the task found when it ran, kept as history: whether the rows
\* existed, the post's flag, the comment's flag and the generator's reply
Seen(comment_id, post_id, ext) ==
    [post_present |-> post_id \in DOMAIN posts,
     comment_present |-> comment_id \in DOMAIN comments,
     post_enabled |-> post_id \in DOMAIN posts /\ posts[post_id].auto_reply_enabled,
     comment_blocked |-> comment_id \in DOMAIN comments /\ comments[comment_id].is_blocked,
     reply |-> generate_reply(auto_reply_enabled(settings), ext)]

NotSeen ==
    [post_present |-> FALSE, comment_present |-> FALSE, post_enabled |-> FALSE,
     comment_blocked |-> FALSE, reply |-> <<>>]

\* apply_async(args) without the countdown: the task is eligible at once
NewTask_no_countdown(comment_id, post_id, delay_seconds) ==
    [comment_id |-> comment_id, post_id |-> post_id, delay_seconds |-> delay_seconds,
     eta |-> now, state |-> "PENDING", retries |-> 0,
     result |-> [success |-> FALSE, error |-> "not run"],
     post_present |-> FALSE, comment_present |-> FALSE,
     scheduled_at |-> now, seen |-> NotSeen]

\* a task of generate_auto_reply in the broker: apply_async(args, countdown)
\* makes it eligible at eta.  post_present and comment_present are history:
\* whether the rows existed when the task ran; so are scheduled_at and seen.
NewTask(comment_id, post_id, delay_seconds) ==
    [comment_id |-> comment_id, post_id |-> post_id, delay_seconds |-> delay_seconds,
     eta |-> now + delay_seconds, state |-> "PENDING", retries |-> 0,
     result |-> [success |-> FALSE, error |-> "not run"],
     post_present |-> FALSE, comment_present |-> FALSE,
     scheduled_at |-> now, seen |-> NotSeen]

\* schedule_auto_reply(comment_id, post_id, delay_seconds), lines 158-179:
\* apply_async raises when the broker is down, and None is returned
ScheduleAutoReplyTask(comment_id, post_id, delay_seconds, broker_up) ==
    /\ Cardinality(DOMAIN tasks) < MaxTasks
    /\ Trigger(post_id, comment_id)
    /\ tasks' = IF broker_up
                THEN Insert(tasks, Cardinality(DOMAIN tasks) + 1,
                            NewTask(comment_id, post_id, delay_seconds))
                ELSE tasks
    /\ call' = [impl |-> "schedule_auto_reply", broker_up |-> broker_up,
                comment_id |-> comment_id, post_id |-> post_id,
                delay_seconds |-> delay_seconds,
                returned |-> IF broker_up THEN Cardinality(DOMAIN tasks) + 1 ELSE None]
    /\ UNCHANGED <<settings, users, dbVars, now, jobs, inflight, resp>>

\* cancel_auto_reply(task_id), lines 182-195: revoke is a broadcast to the
\* workers, which then discard the task if it has not run yet; it raises
\* only when the broker cannot be reached.  state is history: the state of
\* the task the id named when the call was made, "none" when it named none.
Waiting(task_id) ==
    task_id \in DOMAIN tasks /\ tasks[task_id].state \in {"PENDING", "RETRY"}

CancelAutoReply(task_id, broker_up) ==
    /\ tasks' = IF broker_up /\ Waiting(task_id)
                THEN [tasks EXCEPT ![task_id].state = "REVOKED"]
                ELSE tasks
    /\ call' = [impl |-> "cancel_auto_reply", broker_up |-> broker_up,
                task_id |-> task_id,
                state |-> IF task_id \in DOMAIN tasks THEN tasks[task_id].state
                          ELSE "none",
                returned |-> broker_up]
    /\ UNCHANGED <<settings, users, dbVars, now, jobs, inflight, resp>>

\* countdown=delay_seconds: a task is due from its eta on.  Due_by_post is a
\* worker that reads the delay from the post when it looks at the task.
Due_by_post(t) ==
    now >= tasks[t].scheduled_at
             + (IF tasks[t].post_id \in DOMAIN posts
                THEN posts[tasks[t].post_id].auto_reply_delay ELSE 0)

Due(t) == now >= tasks[t].eta

\* generate_auto_reply(self, comment_id, post_id, delay_seconds), lines 33-64:
\* the worker runs the task once its countdown is over.  worker_ok is FALSE
\* when building the session factory or the event loop raises, the one way
\* into the except branch at line 61.
GenerateAutoReplyTask(t, worker_ok, ext) ==
    /\ tasks[t].state \in {"PENDING", "RETRY"}
    /\ Due(t)
    /\ LET task == [tasks[t] EXCEPT
                       !.post_present = tasks[t].post_id \in DOMAIN posts,
                       !.comment_present = tasks[t].comment_id \in DOMAIN comments]
       IN  tasks' = [tasks EXCEPT ![t] =
              IF worker_ok
              THEN [task EXCEPT !.state = "SUCCESS",
                       !.seen = Seen(task.comment_id, task.post_id, ext),
                       !.result = _generate_auto_reply_async(task.comment_id,
                                                             task.post_id, ext)]
              ELSE IF task.retries < MaxRetries
              THEN [task EXCEPT !.state = "RETRY", !.retries = task.retries + 1,
                       !.eta = now + RetryCountdown]
              ELSE [task EXCEPT !.state = "FAILURE"]]
    /\ UNCHANGED <<settings, users, dbVars, now, jobs, inflight, resp, call>>

(***************************************************************************)
(* The HTTP handlers (app/routers).  resp is the last response sent.  Its  *)
(* fields request, verdict, ext, stored and task are history: the payload  *)
(* received, the moderation result the handler worked from (the empty      *)
(* function when it asked for none), what the moderation model did, and    *)
(* the ids of the row stored and of the task scheduled (0 for none).       *)
(***************************************************************************)
Sent(op, status, detail, body, request, verdict, ext, stored, task) ==
    [op |-> op, status |-> status, detail |-> detail, body |-> body,
     request |-> request, verdict |-> verdict, ext |-> ext,
     stored |-> stored, task |-> task]

NoVerdict == <<>>
NoBody == <<>>

\* what the moderation model answers to a router's request
RouterAnswers ==
    [kind : AiFailures] \cup
    [kind : {"text"},
     text : {<<>>, <<"acceptable">>, <<"inappropriate">>,
             <<"{", "ia:true", "}">>, <<"{", "junk", "}">>,
             <<"{", "ia:false", "}">>,
             <<"{", "ia:false", "iss:spam", "sev:high", "}">>}]

Titles == {<<"Test", "Post">>}
Bodies == {<<"This", "is", "a", "test", "post.">>}
CommentTexts == {<<"Great post!">>}

PostCreates == [title : Titles, content : Bodies,
                auto_reply_enabled : BOOLEAN, auto_reply_delay : {0, MaxDelay}]

CommentCreates == [content : CommentTexts]

\* the detail of the 400 response, posts.py lines 59-63 and comments.py
\* lines 84-88; the message is held as a sequence of words
InappropriateDetail(kind, moderation_result) ==
    [message |-> <<kind, "contains", "inappropriate", "content">>,
     issues |-> Get(moderation_result, "issues", <<>>),
     severity |-> Get(moderation_result, "severity", "medium")]

\* if not moderation_result["is_appropriate"]
rejected_unchecked(moderation_result) == FALSE

rejected(moderation_result) == ~moderation_result["is_appropriate"]

\* response_model=PostRead
PostRead(id) ==
    [id |-> id, title |-> posts'[id].title, content |-> posts'[id].content,
     author_id |-> posts'[id].author_id,
     auto_reply_enabled |-> posts'[id].auto_reply_enabled,
     auto_reply_delay |-> posts'[id].auto_reply_delay]

\* crud.create_post(db, post_create, author_id): Post(**post_create.dict(), author_id=author_id)
crud_create_post_drops_flag(post_create, author_id) ==
    Post(post_create.title, post_create.content, author_id,
         FALSE, post_create.auto_reply_delay)

crud_create_post(post_create, author_id) ==
    Post(post_create.title, post_create.content, author_id,
         post_create.auto_reply_enabled, post_create.auto_reply_delay)

\* routers/posts.py create_post, lines 43-70
CreatePost(user, post_create, ext) ==
    /\ LET moderated == service_moderate_content(moderation_enabled(settings), ext)
           moderation_result == moderated.result
           answered == IF moderated.calls = 0 THEN "none" ELSE ext.kind
       IN  IF rejected(moderation_result)
           THEN /\ resp' = Sent("create_post", 400,
                                InappropriateDetail("Post", moderation_result), NoBody,
                                post_create, moderation_result, answered, 0, 0)
                /\ UNCHANGED <<posts, nextPostId>>
           ELSE /\ nextPostId <= MaxPosts
                /\ posts' = Insert(posts, nextPostId, crud_create_post(post_create, user))
                /\ nextPostId' = nextPostId + 1
                /\ resp' = Sent("create_post", 201, <<>>, PostRead(nextPostId),
                                post_create, moderation_result, answered, nextPostId, 0)
    /\ UNCHANGED <<settings, users, comments, nextCommentId, now, jobs, tasks, inflight, call>>

\* routers/comments.py create_comment, lines 66-72: the post is looked up
CreateCommentBegin(user, post_id, comment_create) ==
    /\ DOMAIN inflight = {}
    /\ IF post_id \notin DOMAIN posts
       THEN /\ resp' = Sent("create_comment", 404, <<"Post", "not", "found">>, NoBody,
                            comment_create, NoVerdict, "none", 0, 0)
            /\ UNCHANGED inflight
       ELSE /\ inflight' = Insert(inflight, 1,
                               [user |-> user, post_id |-> post_id,
                                comment_create |-> comment_create,
                                post |-> posts[post_id]])
            /\ UNCHANGED resp
    /\ UNCHANGED <<settings, users, dbVars, now, jobs, tasks, call>>

\* routers/comments.py create_comment, lines 74-111: moderation, the insert
\* and the scheduling.  comment_data is a plain dict, so crud.create_comment
\* raises at its first line and the request ends in a 500.
CreateCommentFinish(r, ext, broker_up) ==
    /\ r \in DOMAIN inflight
    /\ LET req == inflight[r]
           moderated == service_moderate_content(moderation_enabled(settings), ext)
           moderation_result == moderated.result
           answered == IF moderated.calls = 0 THEN "none" ELSE ext.kind
           error == crud_create_comment_error("dict", 4)
           schedule == req.post.auto_reply_enabled
       IN  IF rejected(moderation_result)
           THEN /\ resp' = Sent("create_comment", 400,
                                InappropriateDetail("Comment", moderation_result), NoBody,
                                req.comment_create, moderation_result, answered, 0, 0)
                /\ UNCHANGED <<comments, nextCommentId, tasks>>
           ELSE IF error # "none"
           THEN /\ resp' = Sent("create_comment", 500, <<"Internal", "Server", "Error">>,
                                NoBody, req.comment_create, moderation_result,
                                answered, 0, 0)
                /\ UNCHANGED <<comments, nextCommentId, tasks>>
           ELSE /\ nextCommentId <= MaxComments
                /\ Cardinality(DOMAIN tasks) < MaxTasks
                /\ comments' = Insert(comments, nextCommentId,
                                      Comment(req.comment_create.content, req.user,
                                              req.post_id, FALSE))
                /\ nextCommentId' = nextCommentId + 1
                /\ tasks' = IF schedule /\ broker_up
                            THEN Insert(tasks, Cardinality(DOMAIN tasks) + 1,
                                        NewTask(nextCommentId, req.post_id,
                                                req.post.auto_reply_delay))
                            ELSE tasks
                /\ resp' = Sent("create_comment", 201, <<>>, [id |-> nextCommentId],
                                req.comment_create, moderation_result, answered,
                                nextCommentId,
                                IF schedule /\ broker_up
                                THEN Cardinality(DOMAIN tasks) + 1 ELSE 0)
    /\ inflight' = Remove(inflight, {r})
    /\ UNCHANGED <<settings, users, posts, nextPostId, now, jobs, call>>

\* routers/posts.py delete_post, lines 107-122, and crud.delete_post: the
\* post goes with its comments
DeletePost(user, post_id) ==
    /\ IF delete_post_allowed(post_id, user)
       THEN /\ posts' = Remove(posts, {post_id})
            /\ comments' = Remove(comments, CommentsOf(post_id))
            /\ resp' = Sent("delete_post", 204, <<>>, NoBody, <<>>, NoVerdict,
                            "none", 0, 0)
       ELSE /\ resp' = Sent("delete_post", 404, <<"Post", "not", "found">>, NoBody,
                            <<>>, NoVerdict, "none", 0, 0)
            /\ UNCHANGED <<posts, comments>>
    /\ UNCHANGED <<settings, users, nextPostId, nextCommentId, now, jobs, tasks, inflight, call>>

\* routers/comments.py delete_comment, lines 146-170, and crud.delete_comment
DeleteComment(user, post_id, comment_id) ==
    /\ IF /\ comment_id \in DOMAIN comments
          /\ comments[comment_id].post_id = post_id
          /\ delete_comment_allowed(comment_id, user)
       THEN /\ comments' = Remove(comments, {comment_id})
            /\ resp' = Sent("delete_comment", 204, <<>>, NoBody, <<>>, NoVerdict,
                            "none", 0, 0)
       ELSE /\ resp' = Sent("delete_comment", 404, <<"Comment", "not", "found">>, NoBody,
                            <<>>, NoVerdict, "none", 0, 0)
            /\ UNCHANGED comments
    /\ UNCHANGED <<settings, users, posts, nextPostId, nextCommentId, now, jobs, tasks,
                   inflight, call>>

\* crud.create_comment(db, comment_create, author_id, post_id), lines 91-97,
\* called with a CommentCreate as its signature says: the row is stored with
\* the submitted text, whatever it is.  The second text is one a user may
\* type that begins like the replies of services/auto_reply.py.
OrdinaryTexts == {<<"Great post!">>, <<"[Auto-reply]", " ", "me too">>}

crud_create_comment(comment_create, author_id, post_id) ==
    Comment(comment_create.content, author_id, post_id, FALSE)

CrudCreateComment(user, post_id, comment_create) ==
    /\ post_id \in DOMAIN posts
    /\ nextCommentId <= MaxComments
    /\ comments' = Insert(comments, nextCommentId,
                          crud_create_comment(comment_create, user, post_id))
    /\ nextCommentId' = nextCommentId + 1
    /\ UNCHANGED <<settings, users, posts, nextPostId, now, jobs, tasks, inflight, resp, call>>

\* PostUpdate payloads: post_update.dict(exclude_unset=True) holds only the
\* fields the request sets
PostUpdates == {[auto_reply_enabled |-> b] : b \in BOOLEAN}

\* the payloads that edit a post: new title and content (the second content
\* is the one of test_update_post_inappropriate_content), a new delay, or
\* the flag
PostEdits ==
    PostUpdates
        \cup {[title |-> <<"Updated", "Post">>, content |-> c] :
                  c \in {<<"This", "is", "updated", "content.">>,
                         <<"This", "contains", "spam", "content.">>}}
        \cup {[auto_reply_delay |-> d] : d \in 0..MaxDelay}

\* crud.update_post, lines 68-70: None unless the post exists and the user
\* is its author
update_post_allowed_any(post_id, user_id) == post_id \in DOMAIN posts

update_post_allowed(post_id, user_id) ==
    post_id \in DOMAIN posts /\ posts[post_id].author_id = user_id

\* crud.update_post, lines 72-74: setattr(post, field, value) for each field set
crud_update_post(post, post_update) ==
    [k \in DOMAIN post |-> IF k \in DOMAIN post_update THEN post_update[k] ELSE post[k]]

\* routers/posts.py update_post, lines 88-104, and crud.update_post
UpdatePost(user, post_id, post_update) ==
    /\ IF update_post_allowed(post_id, user)
       THEN /\ posts' = [posts EXCEPT ![post_id] = crud_update_post(posts[post_id], post_update)]
            /\ resp' = Sent("update_post", 200, <<>>, PostRead(post_id), post_update,
                            NoVerdict, "none", post_id, 0)
       ELSE /\ resp' = Sent("update_post", 404, <<"Post", "not", "found">>, NoBody,
                            post_update, NoVerdict, "none", 0, 0)
            /\ UNCHANGED posts
    /\ UNCHANGED <<settings, users, comments, nextPostId, nextCommentId, now, jobs, tasks,
                   inflight, call>>

\* routers/admin.py block_comment, lines 11-42, and crud.block_comment: any
\* active user may call it
BlockComment(user, comment_id) ==
    /\ IF comment_id \notin DOMAIN comments
       THEN /\ resp' = Sent("block_comment", 404, <<"Comment", "not", "found">>, NoBody,
                            <<>>, NoVerdict, "none", 0, 0)
            /\ UNCHANGED comments
       ELSE IF comments[comment_id].is_blocked
       THEN /\ resp' = Sent("block_comment", 400, <<"Comment", "is", "already", "blocked">>,
                            NoBody, <<>>, NoVerdict, "none", 0, 0)
            /\ UNCHANGED comments
       ELSE /\ comments' = [comments EXCEPT ![comment_id].is_blocked = TRUE]
            /\ resp' = Sent("block_comment", 200, <<>>,
                            [id |-> comment_id, is_blocked |-> TRUE], <<>>,
                            NoVerdict, "none", comment_id, 0)
    /\ UNCHANGED <<settings, users, posts, nextPostId, nextCommentId, now, jobs, tasks,
                   inflight, call>>

(***************************************************************************)
(* Calls of the two classifiers on their own.  call is the last call made: *)
(* which implementation, what the external service did, the result and the *)
(* number of external calls.                                               *)
(***************************************************************************)
NoCall == [impl |-> "none"]

ModerateContent(ext) ==
    /\ call = NoCall
    /\ LET r == moderate_content(settings.GOOGLE_AI_API_KEY, ext)
       IN  call' = [impl |-> "moderate_content", configured |-> settings.GOOGLE_AI_API_KEY,
                    ext |-> ext, result |-> r.result, calls |-> r.calls]
    /\ UNCHANGED <<settings, users, dbVars, now, jobs, tasks, inflight, resp>>

ServiceModerateContent(ext) ==
    /\ call = NoCall
    /\ LET r == service_moderate_content(moderation_enabled(settings), ext)
       IN  call' = [impl |-> "ContentModerationService",
                    configured |-> moderation_enabled(settings),
                    ext |-> ext, result |-> r.result, calls |-> r.calls]
    /\ UNCHANGED <<settings, users, dbVars, now, jobs, tasks, inflight, resp>>

(***************************************************************************)
(* Calls of the two reply generators on their own.                         *)
(***************************************************************************)
\* how far past the limit of _clean_reply the long replies go
MaxOver == 2

Chars(n) == [i \in 1..n |-> "a"]

\* replies around the limit, bare, between spaces and between quotes
LongReplies ==
    UNION {{Chars(n), <<" ">> \o Chars(n) \o <<" ">>, <<"\"">> \o Chars(n) \o <<"\"">>} :
              n \in (ReplyLimit - 1)..(ReplyLimit + MaxOver)}

GenerateReply(ext) ==
    /\ call = NoCall
    /\ call' = [impl |-> "generate_reply", configured |-> auto_reply_enabled(settings),
                ext |-> ext, result |-> generate_reply(auto_reply_enabled(settings), ext)]
    /\ UNCHANGED <<settings, users, dbVars, now, jobs, tasks, inflight, resp>>

GenerateAutoReply(ext) ==
    /\ call = NoCall
    /\ call' = [impl |-> "generate_auto_reply", configured |-> settings.GOOGLE_AI_API_KEY,
                ext |-> ext,
                result |-> generate_auto_reply(settings.GOOGLE_AI_API_KEY, ext)]
    /\ UNCHANGED <<settings, users, dbVars, now, jobs, tasks, inflight, resp>>

(***************************************************************************)
(* Users: registration and the profile update.                             *)
(***************************************************************************)
Emails == {"test@example.com", "new@example.com", "other@example.com"}

\* models.User: email = Column(String, unique=True, ...), is_active defaults
\* to True
User(email) == [email |-> email, is_active |-> TRUE]

\* UserUpdate: email and is_active, both optional
UserUpdates ==
    [email : Emails] \cup [is_active : BOOLEAN] \cup [email : Emails, is_active : BOOLEAN]

\* crud.get_user_by_email, lines 11-13: the rows with that email
get_user_by_email(email) == {u \in DOMAIN users : users[u].email = email}

\* unique=True on users.email: the commit of a table with two rows of one
\* email raises IntegrityError
unique_email(table) ==
    \A u, v \in DOMAIN table : table[u].email = table[v].email => u = v

AlreadyRegistered == <<"Email", "already", "registered">>

\* routers/auth.py register, lines 14-20: the existence check; the request
\* then awaits crud.create_user
RegisterStart(r, user_create) ==
    /\ r \notin DOMAIN inflight
    /\ IF get_user_by_email(user_create.email) # {}
       THEN /\ resp' = Sent("register", 400, AlreadyRegistered, NoBody, user_create,
                            NoVerdict, "none", 0, 0)
            /\ UNCHANGED inflight
       ELSE /\ inflight' = Insert(inflight, r, [op |-> "register", request |-> user_create])
            /\ UNCHANGED resp
    /\ UNCHANGED <<settings, users, dbVars, now, jobs, tasks, call>>

\* crud.create_user, lines 19-26, and the answer of register, lines 23-26:
\* the insert is committed unless the unique index refuses it, and the
\* IntegrityError of the commit is caught nowhere
RegisterFinish(r) ==
    /\ r \in DOMAIN inflight
    /\ inflight[r].op = "register"
    /\ LET user_create == inflight[r].request
           db_user == User(user_create.email)
           table == Append(users, db_user)
       IN  IF unique_email(table)
           THEN /\ Len(users) < MaxUsers
                /\ users' = table
                /\ resp' = Sent("register", 201, <<>>, db_user, user_create,
                                NoVerdict, "none", Len(table), 0)
           ELSE /\ resp' = Sent("register", 500, <<"Internal", "Server", "Error">>,
                                NoBody, user_create, NoVerdict, "none", 0, 0)
                /\ UNCHANGED users
    /\ inflight' = Remove(inflight, {r})
    /\ UNCHANGED <<settings, dbVars, now, jobs, tasks, call>>

\* routers/users.py update_current_user_profile, lines 22-33, behind
\* auth.get_current_active_user, lines 98-102
UpdateProfileStart(r, user_id, user_update) ==
    /\ r \notin DOMAIN inflight
    /\ user_id \in DOMAIN users
    /\ LET current_user == users[user_id]
       IN  IF ~current_user.is_active
           THEN /\ resp' = Sent("update_profile", 400, <<"Inactive", "user">>, NoBody,
                                user_update, NoVerdict, "none", 0, 0)
                /\ UNCHANGED inflight
           ELSE IF /\ "email" \in DOMAIN user_update
                   /\ user_update.email # current_user.email
                   /\ get_user_by_email(user_update.email) # {}
           THEN /\ resp' = Sent("update_profile", 400, AlreadyRegistered, NoBody,
                                user_update, NoVerdict, "none", 0, 0)
                /\ UNCHANGED inflight
           ELSE /\ inflight' = Insert(inflight, r, [op |-> "update_profile",
                                                    user_id |-> user_id,
                                                    request |-> user_update])
                /\ UNCHANGED resp
    /\ UNCHANGED <<settings, users, dbVars, now, jobs, tasks, call>>

\* crud.update_user, lines 28-39, and the answer of the handler, lines 36-44
crud_update_user(user, user_update) ==
    [f \in DOMAIN user |-> IF f \in DOMAIN user_update THEN user_update[f] ELSE user[f]]

UpdateProfileFinish(r) ==
    /\ r \in DOMAIN inflight
    /\ inflight[r].op = "update_profile"
    /\ LET user_id == inflight[r].user_id
           user_update == inflight[r].request
           table == [users EXCEPT ![user_id] = crud_update_user(users[user_id], user_update)]
       IN  IF unique_email(table)
           THEN /\ users' = table
                /\ resp' = Sent("update_profile", 200, <<>>, table[user_id], user_update,
                                NoVerdict, "none", user_id, 0)
           ELSE /\ resp' = Sent("update_profile", 500, <<"Internal", "Server", "Error">>,
                                NoBody, user_update, NoVerdict, "none", 0, 0)
                /\ UNCHANGED users
    /\ inflight' = Remove(inflight, {r})
    /\ UNCHANGED <<settings, dbVars, now, jobs, tasks, call>>

(***************************************************************************)
(* The specifications.                                                     *)
(***************************************************************************)
AllSettings == [GOOGLE_AI_API_KEY : BOOLEAN, MODERATION_ENABLED : BOOLEAN,
                AUTO_REPLY_ENABLED : BOOLEAN]

NoResponse == Sent("none", 0, <<>>, NoBody, <<>>, NoVerdict, "none", 0, 0)

\* The database holds a post of user 1 with auto-reply on and a comment of
\* the same user on it, as the fixtures test_post and test_comment leave it;
\* the configuration has the defaults of config.py, with or without an API key.
SeededDb ==
    /\ posts = <<Post(<<"Test", "Post">>, <<"This", "is", "a", "test", "post.">>,
                      1, TRUE, 1)>>
    /\ comments = <<[content |-> <<"This", "is", "a", "test", "comment.">>,
                     author_id |-> 1, post_id |-> 1, is_blocked |-> FALSE,
                     created_at |-> 0]>>
    /\ users = <<User("test@example.com"), User("new@example.com")>>
    /\ nextPostId = 2
    /\ nextCommentId = 2
    /\ now = 0
    /\ jobs = <<>>
    /\ tasks = <<>>
    /\ inflight = <<>>
    /\ resp = NoResponse
    /\ call = NoCall

Init ==
    /\ settings \in {s \in AllSettings : s.MODERATION_ENABLED /\ s.AUTO_REPLY_ENABLED}
    /\ SeededDb

\* the requests that delete what the jobs work on, and the clock
Environment ==
    \/ \E u \in Users, p \in 1..MaxPosts : DeletePost(u, p)
    \/ \E u \in Users, p \in 1..MaxPosts, c \in 1..MaxComments : DeleteComment(u, p, c)
    \/ Tick

\* the requests that change what a job reads again: the author turns
\* auto-reply off or on, a user blocks a comment
Moderation ==
    \/ \E u \in Users, p \in 1..MaxPosts, pu \in PostUpdates : UpdatePost(u, p, pu)
    \/ \E u \in Users, c \in 1..MaxComments : BlockComment(u, c)

\* the coroutines of services/auto_reply.py
NextJobs ==
    \/ \E p \in 1..MaxPosts, c \in 1..MaxComments, d \in 0..MaxDelay :
           ScheduleAutoReply(p, c, d)
    \/ \E j \in DOMAIN jobs : JobWake(j)
    \/ \E j \in DOMAIN jobs : JobGetPost(j)
    \/ \E j \in DOMAIN jobs : JobGetComment(j)
    \/ \E j \in DOMAIN jobs : JobQuery(j)
    \/ \E j \in DOMAIN jobs, ext \in GenerationOutcomes : JobReply(j, ext)
    \/ Environment

\* the Celery tasks of background.py
NextTasks ==
    \/ \E p \in 1..MaxPosts, c \in 1..MaxComments, d \in 0..MaxDelay, up \in BOOLEAN :
           ScheduleAutoReplyTask(c, p, d, up)
    \/ \E t \in DOMAIN tasks, ok \in BOOLEAN, ext \in ReplyOutcomes :
           GenerateAutoReplyTask(t, ok, ext)
    \/ \E t \in 1..MaxTasks + 1, up \in BOOLEAN : CancelAutoReply(t, up)
    \/ Environment
    \/ Moderation

\* one coroutine at a time, with the requests that change what it reads
NextReplies ==
    \/ \E p \in 1..MaxPosts, c \in 1..MaxComments, d \in 0..MaxDelay :
           /\ \A j \in DOMAIN jobs : jobs[j].pc = "done"
           /\ ScheduleAutoReply(p, c, d)
    \/ \E j \in DOMAIN jobs : JobWake(j)
    \/ \E j \in DOMAIN jobs : JobGetPost(j)
    \/ \E j \in DOMAIN jobs : JobGetComment(j)
    \/ \E j \in DOMAIN jobs : JobQuery(j)
    \/ \E j \in DOMAIN jobs, ext \in GenerationOutcomes : JobReply(j, ext)
    \/ Moderation
    \/ Tick

\* the requests that create posts and comments
NextHttp ==
    \/ \E u \in Users, pc \in PostCreates, ext \in RouterAnswers : CreatePost(u, pc, ext)
    \/ \E u \in Users, p \in 1..MaxPosts, cc \in CommentCreates :
           CreateCommentBegin(u, p, cc)
    \/ \E r \in DOMAIN inflight, ext \in RouterAnswers, up \in BOOLEAN :
           CreateCommentFinish(r, ext, up)
    \/ \E u \in Users, p \in 1..MaxPosts : DeletePost(u, p)

\* scheduling and running alone, of one coroutine and of the Celery tasks,
\* with the clock.  When a run begins does not depend on what
\* the generation service answers, so one answer is taken for each.
NextTiming ==
    \/ \E p \in 1..MaxPosts, c \in 1..MaxComments, d \in 0..MaxDelay :
           /\ DOMAIN jobs = {}
           /\ ScheduleAutoReply(p, c, d)
    \/ \E j \in DOMAIN jobs : JobWake(j)
    \/ \E j \in DOMAIN jobs : JobGetPost(j)
    \/ \E j \in DOMAIN jobs : JobGetComment(j)
    \/ \E j \in DOMAIN jobs : JobQuery(j)
    \/ \E j \in DOMAIN jobs : JobReply(j, [kind |-> "no_candidate"])
    \/ \E p \in 1..MaxPosts, c \in 1..MaxComments, d \in 0..MaxDelay, up \in BOOLEAN :
           ScheduleAutoReplyTask(c, p, d, up)
    \/ \E t \in DOMAIN tasks, ok \in BOOLEAN :
           GenerateAutoReplyTask(t, ok, [kind |-> "raise"])
    \/ Tick

\* the generators alone
NextGenerate ==
    \/ \E ext \in ReplyOutcomes \cup [kind : {"text"}, text : LongReplies] :
           GenerateReply(ext)
    \/ \E ext \in GenerationOutcomes \cup [kind : {"ok"}, text : LongReplies] :
           GenerateAutoReply(ext)

\* two comments of a user on the seeded post, each a trigger of its own
\* coroutine, and the clock
InitPairs ==
    /\ settings \in {s \in AllSettings : s.MODERATION_ENABLED /\ s.AUTO_REPLY_ENABLED}
    /\ posts = <<Post(<<"Test", "Post">>, <<"This", "is", "a", "test", "post.">>,
                      1, TRUE, 1)>>
    /\ comments = <<[content |-> <<"This", "is", "a", "test", "comment.">>,
                     author_id |-> 1, post_id |-> 1, is_blocked |-> FALSE,
                     created_at |-> 0],
                    [content |-> <<"Great post!">>,
                     author_id |-> 2, post_id |-> 1, is_blocked |-> FALSE,
                     created_at |-> 0]>>
    /\ users = <<User("test@example.com"), User("new@example.com")>>
    /\ nextPostId = 2
    /\ nextCommentId = 3
    /\ now = 0
    /\ jobs = <<>>
    /\ tasks = <<>>
    /\ inflight = <<>>
    /\ resp = NoResponse
    /\ call = NoCall

NextPairs ==
    \/ \E p \in 1..MaxPosts, c \in 1..MaxComments, d \in 0..MaxDelay :
           ScheduleAutoReply(p, c, d)
    \/ \E j \in DOMAIN jobs : JobWake(j)
    \/ \E j \in DOMAIN jobs : JobGetPost(j)
    \/ \E j \in DOMAIN jobs : JobGetComment(j)
    \/ \E j \in DOMAIN jobs : JobQuery(j)
    \/ \E j \in DOMAIN jobs, ext \in GenerationOutcomes : JobReply(j, ext)
    \/ Tick

\* the requests that edit and delete the stored posts and their comments
NextEdit ==
    \/ \E u \in Users, p \in DOMAIN posts, pu \in PostEdits : UpdatePost(u, p, pu)
    \/ \E u \in Users, p \in DOMAIN posts : DeletePost(u, p)
    \/ \E u \in Users, p \in DOMAIN posts, c \in 1..MaxComments : DeleteComment(u, p, c)

\* one coroutine and the Celery tasks from scheduling to their end, with
\* time passing from one due time to the next
NextLive ==
    \/ \E p \in 1..MaxPosts, c \in 1..MaxComments, d \in 0..MaxDelay :
           /\ DOMAIN jobs = {}
           /\ ScheduleAutoReply(p, c, d)
    \/ \E j \in DOMAIN jobs : JobWake(j)
    \/ \E j \in DOMAIN jobs : JobGetPost(j)
    \/ \E j \in DOMAIN jobs : JobGetComment(j)
    \/ \E j \in DOMAIN jobs : JobQuery(j)
    \/ \E j \in DOMAIN jobs, ext \in GenerationOutcomes : JobReply(j, ext)
    \/ \E p \in 1..MaxPosts, c \in 1..MaxComments, d \in 0..MaxDelay, up \in BOOLEAN :
           ScheduleAutoReplyTask(c, p, d, up)
    \/ \E t \in DOMAIN tasks, ok \in BOOLEAN, ext \in ReplyOutcomes :
           GenerateAutoReplyTask(t, ok, ext)
    \/ Elapse

\* the event loop runs every coroutine that can go on, the worker runs every
\* task that is due, and time passes
Fairness ==
    /\ \A j \in 1..MaxJobs :
           WF_vars(j \in DOMAIN jobs /\
                   (\/ JobWake(j) \/ JobGetPost(j) \/ JobGetComment(j) \/ JobQuery(j)
                    \/ \E ext \in GenerationOutcomes : JobReply(j, ext)))
    /\ \A t \in 1..MaxTasks :
           WF_vars(t \in DOMAIN tasks /\
                   \E ok \in BOOLEAN, ext \in ReplyOutcomes :
                       GenerateAutoReplyTask(t, ok, ext))
    /\ WF_vars(Elapse)

\* one coroutine at a time among comments stored by crud.create_comment
NextGuard ==
    \/ \E u \in Users, p \in 1..MaxPosts, text \in OrdinaryTexts :
           CrudCreateComment(u, p, [content |-> text])
    \/ \E p \in 1..MaxPosts, c \in 1..MaxComments, d \in 0..MaxDelay :
           /\ \A j \in DOMAIN jobs : jobs[j].pc = "done"
           /\ ScheduleAutoReply(p, c, d)
    \/ \E j \in DOMAIN jobs : JobWake(j)
    \/ \E j \in DOMAIN jobs : JobGetPost(j)
    \/ \E j \in DOMAIN jobs : JobGetComment(j)
    \/ \E j \in DOMAIN jobs : JobQuery(j)
    \/ \E j \in DOMAIN jobs : JobReply(j, [kind |-> "no_candidate"])
    \/ Tick

\* tasks scheduled with the delay of their post (comments.py lines 102-106
\* pass post.auto_reply_delay), their runs, and updates of that delay
NextDelay ==
    \/ \E p \in DOMAIN posts, c \in 1..MaxComments, up \in BOOLEAN :
           ScheduleAutoReplyTask(c, p, posts[p].auto_reply_delay, up)
    \/ \E t \in DOMAIN tasks, ok \in BOOLEAN :
           GenerateAutoReplyTask(t, ok, [kind |-> "raise"])
    \/ \E u \in Users, p \in DOMAIN posts :
           \E pu \in {e \in PostEdits : "auto_reply_delay" \in DOMAIN e} :
               UpdatePost(u, p, pu)
    \/ Tick

\* the fixture test_user is registered; nothing else is stored
InitUsers ==
    /\ settings \in {s \in AllSettings : s.MODERATION_ENABLED /\ s.AUTO_REPLY_ENABLED}
    /\ users = <<User("test@example.com")>>
    /\ posts = <<>>
    /\ comments = <<>>
    /\ nextPostId = 1
    /\ nextCommentId = 1
    /\ now = 0
    /\ jobs = <<>>
    /\ tasks = <<>>
    /\ inflight = <<>>
    /\ resp = NoResponse
    /\ call = NoCall

\* register and update-profile requests, each in its two steps, interleaved
NextUsers ==
    \/ \E r \in 1..MaxRequests, e \in Emails : RegisterStart(r, [email |-> e])
    \/ \E r \in DOMAIN inflight : RegisterFinish(r)
    \/ \E r \in 1..MaxRequests, u \in DOMAIN users, user_update \in UserUpdates :
           UpdateProfileStart(r, u, user_update)
    \/ \E r \in DOMAIN inflight : UpdateProfileFinish(r)

Next ==
    \/ NextJobs \/ NextTasks \/ NextReplies \/ NextTiming \/ NextHttp
    \/ NextPairs \/ NextEdit \/ NextLive \/ NextGuard \/ NextDelay
    \/ NextUsers

\* the whole program
Spec == Init /\ [][Next]_vars

\* its parts, whose state spaces are small enough to be searched in full
SpecJobs == Init /\ [][NextJobs]_vars

SpecTasks == Init /\ [][NextTasks]_vars

SpecHttp == Init /\ [][NextHttp]_vars

\* the classifiers alone, under every configuration
InitClassify ==
    /\ settings \in AllSettings
    /\ SeededDb

NextClassify ==
    \/ \E ext \in HttpOutcomes : ModerateContent(ext)
    \/ \E ext \in AiOutcomes : ServiceModerateContent(ext)

SpecClassify == InitClassify /\ [][NextClassify]_vars

\* the coroutines under moderation requests, and the generators alone under
\* every configuration
SpecReplies == Init /\ [][NextReplies]_vars

SpecGenerate == InitClassify /\ [][NextGenerate]_vars

\* scheduling and running under the clock
SpecTiming == Init /\ [][NextTiming]_vars

\* two triggering comments on one post
SpecPairs == InitPairs /\ [][NextPairs]_vars

\* the jobs under fair scheduling
SpecLive == Init /\ [][NextLive]_vars /\ Fairness

\* the guard among ordinary comments
SpecGuard == Init /\ [][NextGuard]_vars

\* the delay of scheduled tasks under updates of the post
SpecDelay == Init /\ [][NextDelay]_vars

\* registration and profile updates
SpecUsers == InitUsers /\ [][NextUsers]_vars

\* editing and deleting
SpecEdit == Init /\ [][NextEdit]_vars

(***************************************************************************)
(* Properties of the auto-reply jobs.                                      *)
(***************************************************************************)
\* C1: in every reachable state, for every comment a job was scheduled for,
\* at most one auto-reply of the post's author is stored on the post with a
\* creation time after the comment's, whatever the number of schedule calls
\* for the pair and however the runs interleave.
AtMostOneAutoReply ==
    \A j \in DOMAIN jobs :
        LET c == jobs[j].comment_id
            p == jobs[j].post_id
        IN  (c \in DOMAIN comments /\ p \in DOMAIN posts) =>
                Cardinality(existing_auto_reply(p, posts[p].author_id,
                                                comments[c].created_at)) <= 1

\* C2: a complete run for a pair (comment_id, post_id) that starts after
\* another run for the same pair has posted its reply, and that finds post,
\* comment and that reply stored, ends with already_replied and stores no
\* comment, for every delay, 0 included.
SecondRunAlreadyReplied ==
    \A j \in DOMAIN jobs :
        (jobs[j].pc = "done" /\ jobs[j].prior) =>
            (jobs[j].outcome = "already_replied" /\ jobs[j].created = 0)

\* C3: a job that finds the post or the triggering comment gone when it
\* fetches them again ends with target_gone (the Celery task's
\* "Comment not found" or "Post not found") and stores no comment.
TargetGoneOnDeletion ==
    /\ \A j \in DOMAIN jobs :
           (jobs[j].pc = "done" /\ (~jobs[j].post_found \/ ~jobs[j].comment_found)) =>
               (jobs[j].outcome = "target_gone" /\ jobs[j].created = 0)
    /\ \A t \in DOMAIN tasks :
           (/\ tasks[t].state = "SUCCESS"
            /\ (~tasks[t].post_present \/ ~tasks[t].comment_present)) =>
               tasks[t].result \in {Failed("Comment not found"), Failed("Post not found")}

(***************************************************************************)
(* Properties of the HTTP handlers.                                        *)
(***************************************************************************)
\* a step in which create_comment answers a request that got past the post
\* lookup, and a step in which create_post answers
CommentAnswered == DOMAIN inflight # {} /\ DOMAIN inflight' = {}

PostAnswered == resp' # resp /\ resp'.op = "create_post"

\* C4: whenever the moderation verdict for a submitted comment has
\* is_appropriate = false, create_comment answers 400 with the verdict's
\* issues and severity, and the stored comments, the task queue and the
\* coroutines are the same after the request as before it.
CommentRejected ==
    [][(CommentAnswered /\ ~resp'.verdict["is_appropriate"]) =>
           /\ resp'.op = "create_comment"
           /\ resp'.status = 400
           /\ resp'.detail.issues = resp'.verdict["issues"]
           /\ resp'.detail.severity = resp'.verdict["severity"]
           /\ resp'.stored = 0 /\ resp'.task = 0
           /\ UNCHANGED <<comments, nextCommentId, tasks, jobs>>]_vars

\* a comment was rejected for a verdict that names an issue and a severity
CommentRejectedSeen ==
    /\ resp.op = "create_comment"
    /\ resp.status = 400
    /\ ~resp.verdict["is_appropriate"]
    /\ resp.detail.issues = <<"spam">>
    /\ resp.detail.severity = "high"
    /\ DOMAIN inflight = {}

\* the columns of a stored post that the request submitted
Submitted(row, post_create) ==
    /\ row.title = post_create.title
    /\ row.content = post_create.content
    /\ row.auto_reply_enabled = post_create.auto_reply_enabled
    /\ row.auto_reply_delay = post_create.auto_reply_delay

\* C5: when the verdict for a submitted post has is_appropriate = false,
\* create_post answers 400, the detail's message contains "inappropriate
\* content" and its issues and severity are the verdict's, and no post is
\* stored; when the verdict has is_appropriate = true, the post is stored and
\* the answer is 201 with the submitted title, content, auto_reply_enabled
\* and auto_reply_delay.
PostGate ==
    [][PostAnswered =>
           IF ~resp'.verdict["is_appropriate"]
           THEN /\ resp'.status = 400
                /\ Contains(resp'.detail.message, <<"inappropriate", "content">>)
                /\ resp'.detail.issues = resp'.verdict["issues"]
                /\ resp'.detail.severity = resp'.verdict["severity"]
                /\ UNCHANGED <<posts, nextPostId>>
           ELSE /\ resp'.status = 201
                /\ Submitted(resp'.body, resp'.request)
                /\ DOMAIN posts' = DOMAIN posts \cup {resp'.stored}
                /\ resp'.stored \notin DOMAIN posts
                /\ resp'.body.id = resp'.stored
                /\ Submitted(posts'[resp'.stored], resp'.request)
                /\ \A p \in DOMAIN posts : posts'[p] = posts[p]]_vars

\* a post was rejected after another one, with auto-reply on, had been stored
PostGateSeen ==
    /\ resp.op = "create_post"
    /\ resp.status = 400
    /\ resp.detail.issues = <<"spam">>
    /\ resp.detail.severity = "high"
    /\ \E p \in DOMAIN posts : p >= 2 /\ posts[p].auto_reply_enabled

\* C6: when the moderation call made for create_post or create_comment
\* raises, the request is still answered 201 and the post or comment is
\* stored.
ModerationFailureNeverBlocks ==
    [][(/\ resp' # resp
        /\ resp'.op \in {"create_post", "create_comment"}
        /\ resp'.ext = "raise") =>
           /\ resp'.status = 201
           /\ IF resp'.op = "create_post"
              THEN resp'.stored \in DOMAIN posts' \ DOMAIN posts
              ELSE resp'.stored \in DOMAIN comments' \ DOMAIN comments]_vars

(***************************************************************************)
(* Properties of the classifiers.                                          *)
(***************************************************************************)
\* a verdict with exactly these four values
IsVerdict(result, is_appropriate, confidence, issues, severity) ==
    /\ "is_appropriate" \in DOMAIN result /\ result["is_appropriate"] = is_appropriate
    /\ "confidence" \in DOMAIN result /\ result["confidence"] = confidence
    /\ "issues" \in DOMAIN result /\ result["issues"] = issues
    /\ "severity" \in DOMAIN result /\ result["severity"] = severity

\* the external call of the last classification failed: the request raised
\* or timed out, the status was not a success, or the body was malformed
ExternalCallFailed ==
    /\ call.impl # "none"
    /\ call.calls = 1
    /\ call.ext.kind \in HttpFailures \cup AiFailures

\* C7: when the external moderation call fails, the classifier returns the
\* verdict is_appropriate = true, confidence = 0.5, issues =
\* ["moderation_error"], severity = unknown.
FailOpenVerdict ==
    ExternalCallFailed =>
        IsVerdict(call.result, TRUE, 50, <<"moderation_error">>, "unknown")

\* C8: when no API key is configured, the classifier makes no external call
\* and returns is_appropriate = true, confidence = 1.0, issues = [],
\* severity = none.
UnconfiguredVerdict ==
    (call.impl # "none" /\ ~settings.GOOGLE_AI_API_KEY) =>
        /\ call.calls = 0
        /\ IsVerdict(call.result, TRUE, 100, <<>>, "none")

\* C9: on a successful external call of moderate_content, is_appropriate is
\* the negation of the response's flagged, and confidence, issues and
\* severity are the response's, for every response.
OneToOneMapping ==
    (call.impl = "moderate_content" /\ call.calls = 1 /\ call.ext.kind = "ok") =>
        LET data == call.ext.data
        IN  /\ "flagged" \in DOMAIN data =>
                   call.result.is_appropriate = ~data["flagged"]
            /\ "confidence" \in DOMAIN data =>
                   call.result.confidence = data["confidence"]
            /\ "issues" \in DOMAIN data => call.result.issues = data["issues"]
            /\ "severity" \in DOMAIN data => call.result.severity = data["severity"]

\* a response with all four fields, flagged, was mapped
OneToOneMappingSeen ==
    /\ call.impl = "moderate_content"
    /\ call.calls = 1
    /\ call.ext.kind = "ok"
    /\ DOMAIN call.ext.data = JsonKeys
    /\ call.ext.data["flagged"]
    /\ ~call.result.is_appropriate
    /\ call.result.severity = "high"
    /\ call.result.issues = <<"profanity", "hate_speech">>

\* a response that cannot be parsed as a structured verdict: no JSON object
\* in it, invalid JSON between the braces, or an object without is_appropriate
Unparseable(response) ==
    LET m == json_match(response)
    IN  \/ m = <<0, 0>>
        \/ ~json_valid(Members(response, m))
        \/ "is_appropriate" \notin DOMAIN json_loads(Members(response, m))

\* C10: for every response of the moderation model that cannot be parsed as
\* a structured verdict, ContentModerationService returns a verdict with
\* is_appropriate = true.
UnparseableIsPermissive ==
    (/\ call.impl = "ContentModerationService"
     /\ call.calls = 1
     /\ call.ext.kind = "text"
     /\ Unparseable(call.ext.text)) => call.result["is_appropriate"]

(***************************************************************************)
(* Properties of the Celery task and of the coroutine, once they run.      *)
(***************************************************************************)
\* a run of the Celery task that found the post and the comment stored, the
\* post's auto-reply on, the comment not blocked and a reply generated
TaskShouldPost(t) ==
    /\ tasks[t].state = "SUCCESS"
    /\ tasks[t].seen.post_present /\ tasks[t].seen.comment_present
    /\ tasks[t].seen.post_enabled /\ ~tasks[t].seen.comment_blocked
    /\ tasks[t].seen.reply # <<>>

\* C11: a run of the job that finds post and comment present, the post's
\* auto-reply enabled, the comment not blocked and a non-empty generated
\* reply R ends with a successful result that names the new comment, and
\* that comment is stored on the post with content R, by the post's author
\* and not blocked.
JobPostsReply ==
    \A t \in DOMAIN tasks :
        TaskShouldPost(t) =>
            /\ tasks[t].result.success
            /\ tasks[t].result.reply_id \in DOMAIN comments
            /\ LET reply == comments[tasks[t].result.reply_id]
               IN  /\ reply.content = tasks[t].seen.reply
                   /\ reply.post_id = tasks[t].post_id
                   /\ reply.author_id = posts[tasks[t].post_id].author_id
                   /\ ~reply.is_blocked

\* a run of the coroutine that went through both reads and found both rows
JobFoundBoth(j) ==
    jobs[j].pc = "done" /\ jobs[j].post_found /\ jobs[j].comment_found

TaskFoundBoth(t) ==
    /\ tasks[t].state = "SUCCESS"
    /\ tasks[t].seen.post_present /\ tasks[t].seen.comment_present

\* C12: a run of the job that reads the post with auto_reply_enabled = false
\* (a post update turned it off after the scheduling) ends with outcome
\* disabled and stores no comment.
DisabledPostGetsNoReply ==
    /\ \A j \in DOMAIN jobs :
           (JobFoundBoth(j) /\ ~jobs[j].post_enabled) =>
               (jobs[j].outcome = "disabled" /\ jobs[j].created = 0)
    /\ \A t \in DOMAIN tasks :
           (TaskFoundBoth(t) /\ ~tasks[t].seen.post_enabled) =>
               tasks[t].result = Failed("Auto-reply disabled")

\* C13: a run of the job that reads the triggering comment with is_blocked =
\* true (block_comment was called after the scheduling), on a post whose
\* auto-reply is still on, ends with outcome blocked and stores no comment.
BlockedCommentGetsNoReply ==
    /\ \A j \in DOMAIN jobs :
           (JobFoundBoth(j) /\ jobs[j].post_enabled /\ jobs[j].comment_blocked) =>
               (jobs[j].outcome = "blocked" /\ jobs[j].created = 0)
    /\ \A t \in DOMAIN tasks :
           (/\ TaskFoundBoth(t)
            /\ tasks[t].seen.post_enabled
            /\ tasks[t].seen.comment_blocked) =>
               tasks[t].result = Failed("Comment blocked")

\* C14: a run of the job in which the generator produced no reply (it was
\* not configured or its external call failed) ends with outcome no_content
\* and stores no comment, and no stored comment ever holds the placeholder
\* text.
NoReplyMeansNoComment ==
    /\ \A j \in DOMAIN jobs :
           (jobs[j].pc = "done" /\ jobs[j].generator \in {"unconfigured", "failed"}) =>
               (jobs[j].outcome = "no_content" /\ jobs[j].created = 0)
    /\ \A c \in DOMAIN comments :
           comments[c].content # AutoReplyContent(ThankYouForYourComment)
    /\ \A t \in DOMAIN tasks :
           (/\ TaskFoundBoth(t)
            /\ tasks[t].seen.post_enabled /\ ~tasks[t].seen.comment_blocked
            /\ tasks[t].seen.reply = <<>>) =>
               tasks[t].result = Failed("Failed to generate reply")

(***************************************************************************)
(* Properties of the reply generators.                                     *)
(***************************************************************************)
\* the last call was a call of one of the two generators
Generated == call.impl \in {"generate_reply", "generate_auto_reply"}

\* the external generation call of the last call failed
GenerationCallFailed == call.ext.kind \in AiFailures \cup GenerationFailures

\* C15: a call of the generator returns the empty text whenever the
\* generation feature is disabled or not configured or the external call
\* fails, and a non-empty text only after a successful external call.
SilentWithoutReply ==
    Generated =>
        /\ (~auto_reply_enabled(settings) \/ GenerationCallFailed) => call.result = <<>>
        /\ call.result # <<>> =>
               (auto_reply_enabled(settings) /\ ~GenerationCallFailed)

\* a raw reply without its surrounding whitespace and quote characters
Stripped(raw) == strip(strip(strip(raw, Whitespace), {"\""}), {"'"})

\* C16: for every raw reply the generator received from the model, the
\* returned text has length exactly 500 and ends with "..." when the
\* stripped reply is longer than 500 characters, is the stripped reply
\* itself otherwise, and is never longer than 500 characters.
CleanedReplyBounded ==
    (Generated /\ call.configured /\ call.ext.kind \in {"text", "ok"}) =>
        LET stripped == Stripped(call.ext.text)
            n == Len(call.result)
        IN  /\ n <= ReplyLimit
            /\ IF Len(stripped) > ReplyLimit
               THEN /\ n = ReplyLimit
                    /\ SubSeq(call.result, n - 2, n) = <<".", ".", ".">>
               ELSE call.result = stripped

(***************************************************************************)
(* Properties of scheduling, cancelling and retrying.                      *)
(***************************************************************************)
\* the worker has begun a run of the task
Started(t) == tasks[t].state \in {"SUCCESS", "RETRY", "FAILURE"} \/ tasks[t].retries > 0

\* C17: a job scheduled at time t with delay d has not begun to run at any
\* time before t + d, for the Celery task and for the coroutine alike, and a
\* call of schedule_auto_reply that reached the broker returned the id of
\* the task it queued for its arguments.
NeverBeforeDelay ==
    /\ \A t \in DOMAIN tasks :
           Started(t) => now >= tasks[t].scheduled_at + tasks[t].delay_seconds
    /\ \A j \in DOMAIN jobs :
           jobs[j].pc # "sleep" => now >= jobs[j].scheduled_at + jobs[j].delay
    /\ (call.impl = "schedule_auto_reply" /\ call.broker_up) =>
           /\ call.returned # None
           /\ call.returned \in DOMAIN tasks
           /\ tasks[call.returned].comment_id = call.comment_id
           /\ tasks[call.returned].post_id = call.post_id
           /\ tasks[call.returned].delay_seconds = call.delay_seconds

\* a task and a coroutine, both scheduled with a delay, have run, and the
\* last schedule call returned the id of a task
NeverBeforeDelaySeen ==
    /\ \E t \in DOMAIN tasks :
           /\ tasks[t].state = "SUCCESS"
           /\ tasks[t].delay_seconds >= 1
           /\ call.impl = "schedule_auto_reply" /\ call.returned = t
    /\ \E j \in DOMAIN jobs :
           jobs[j].pc = "done" /\ jobs[j].delay >= 1 /\ jobs[j].outcome = "posted"

\* C18: when the broker cannot be reached, schedule_auto_reply returns None,
\* and a create_comment request for an accepted comment on a post with
\* auto-reply on is still answered 201 with the comment stored; the one
\* difference is that no task is queued.
EnqueueFailureKeepsComment ==
    /\ [][(call' # call /\ call'.impl = "schedule_auto_reply" /\ ~call'.broker_up) =>
              (call'.returned = None /\ tasks' = tasks)]_vars
    /\ [][\A r \in DOMAIN inflight, ext \in RouterAnswers :
              (/\ CreateCommentFinish(r, ext, FALSE)
               /\ inflight[r].post.auto_reply_enabled
               /\ resp'.verdict["is_appropriate"]) =>
                  /\ resp'.status = 201
                  /\ resp'.stored \in DOMAIN comments' \ DOMAIN comments
                  /\ resp'.task = 0
                  /\ tasks' = tasks]_vars

\* C19: a call of cancel_auto_reply returns False when the task it names has
\* already begun to run or does not exist, and True only when the task had
\* not yet started and is now revoked.
CancelReportsOutcome ==
    call.impl = "cancel_auto_reply" =>
        /\ call.state # "PENDING" => ~call.returned
        /\ call.returned =>
               /\ call.state = "PENDING"
               /\ tasks[call.task_id].state = "REVOKED"

\* C20: a run of the task in which an exception is raised (while the rows
\* are read, the reply is generated or the comment is stored) does not end
\* the task: the task is retried RetryCountdown seconds later, at most
\* MaxRetries times, and only then given up.
RetryOnException ==
    \A t \in DOMAIN tasks :
        /\ tasks[t].retries <= MaxRetries
        /\ tasks[t].state = "RETRY" =>
               tasks[t].eta >= tasks[t].scheduled_at + RetryCountdown
        /\ tasks[t].state = "FAILURE" => tasks[t].retries = MaxRetries
        /\ tasks[t].state = "SUCCESS" => tasks[t].result.error \notin Exceptions

(***************************************************************************)
(* Properties of the jobs among themselves and of their effects.           *)
(***************************************************************************)
\* the auto-replies of the author stored on a post
AutoRepliesOn(post_id) ==
    {c \in DOMAIN comments :
        /\ comments[c].post_id = post_id
        /\ LikeAutoReply(comments[c].content)
        /\ post_id \in DOMAIN posts
        /\ comments[c].author_id = posts[post_id].author_id}

\* C21: when two jobs for two distinct comments on the same post have both
\* run, the post holds at most one auto-reply, in whatever order and
\* interleaving the two ran.
OneReplyForTwoTriggers ==
    \A j1, j2 \in DOMAIN jobs :
        (/\ jobs[j1].comment_id # jobs[j2].comment_id
         /\ jobs[j1].post_id = jobs[j2].post_id
         /\ jobs[j1].pc = "done" /\ jobs[j2].pc = "done") =>
            Cardinality(AutoRepliesOn(jobs[j1].post_id)) <= 1

(***************************************************************************)
(* Properties of the requests that edit posts.                             *)
(***************************************************************************)
\* C22: an update of a post by its author with new content for which the
\* moderation service answers is_appropriate = false is answered 400 with a
\* message that contains "inappropriate content" and leaves the stored post
\* as it was; an update the service accepts is answered 200 with the new
\* title and content.
UpdateIsModerated ==
    [][\A u \in Users, p \in DOMAIN posts, ext \in RouterAnswers :
          \A pu \in {e \in PostEdits : "content" \in DOMAIN e} :
              (UpdatePost(u, p, pu) /\ posts[p].author_id = u) =>
                  IF rejected(service_moderate_content(moderation_enabled(settings),
                                                       ext).result)
                  THEN /\ resp'.status = 400
                       /\ Contains(resp'.detail.message, <<"inappropriate", "content">>)
                       /\ UNCHANGED posts
                  ELSE /\ resp'.status = 200
                       /\ resp'.body.title = pu.title
                       /\ resp'.body.content = pu.content]_vars

\* C23: for every post and every user who is not its author, update_post and
\* delete_post answer 404 and leave the posts and the comments as they were;
\* and in every step in which a stored post's fields change, the step is an
\* update_post request of the post's author.
AuthorOnly ==
    /\ [][\A u \in Users, p \in DOMAIN posts :
              posts[p].author_id # u =>
                  /\ \A pu \in PostEdits :
                         UpdatePost(u, p, pu) =>
                             (resp'.status = 404 /\ UNCHANGED <<posts, comments>>)
                  /\ DeletePost(u, p) =>
                         (resp'.status = 404 /\ UNCHANGED <<posts, comments>>)]_vars
    /\ [][\A p \in DOMAIN posts :
              (p \in DOMAIN posts' /\ posts'[p] # posts[p]) =>
                  /\ \E pu \in PostEdits : UpdatePost(posts[p].author_id, p, pu)
                  /\ resp'.status = 200
                  /\ posts'[p].author_id = posts[p].author_id]_vars

\* an update of the delay of a stored post was answered 404 and the post
\* keeps another delay: the request came from a user who is not its author
AuthorOnlySeen ==
    /\ resp.op = "update_post"
    /\ resp.status = 404
    /\ "auto_reply_delay" \in DOMAIN resp.request
    /\ \E p \in DOMAIN posts :
           /\ posts[p].auto_reply_delay # resp.request.auto_reply_delay
           /\ \E c \in DOMAIN comments : comments[c].post_id = p
(***************************************************************************)
(* Properties of the life of a job.                                        *)
(***************************************************************************)
\* the outcomes a job may end with
Outcomes ==
    {"posted", "target_gone", "disabled", "blocked", "already_replied", "no_content"}

\* the outcome the result of a finished run of the Celery task stands for
TaskOutcome(result) ==
    IF result.success THEN "posted"
    ELSE CASE result.error \in {"Comment not found", "Post not found"} -> "target_gone"
           [] result.error = "Auto-reply disabled" -> "disabled"
           [] result.error = "Comment blocked" -> "blocked"
           [] result.error = "Failed to generate reply" -> "no_content"
           [] OTHER -> "error"

TaskEnded(t) == t \in DOMAIN tasks /\ tasks[t].state \in {"SUCCESS", "FAILURE"}

JobEnded(j) == j \in DOMAIN jobs /\ jobs[j].pc = "done"

\* C24: under fair scheduling every scheduled job comes to an end: a run of
\* the coroutine finishes, a Celery task finishes or is given up after at
\* most MaxRetries retries; a job that finished has one of the outcomes
\* posted, target_gone, disabled, blocked, already_replied, no_content; and
\* a job that has ended keeps its result.
EveryJobTerminates ==
    /\ \A t \in 1..MaxTasks : (t \in DOMAIN tasks) ~> TaskEnded(t)
    /\ \A j \in 1..MaxJobs : (j \in DOMAIN jobs) ~> JobEnded(j)
    /\ [](\A t \in DOMAIN tasks :
             /\ tasks[t].retries <= MaxRetries
             /\ tasks[t].state = "FAILURE" => tasks[t].retries = MaxRetries
             /\ tasks[t].state = "SUCCESS" => TaskOutcome(tasks[t].result) \in Outcomes)
    /\ [](\A j \in DOMAIN jobs : jobs[j].pc = "done" => jobs[j].outcome \in Outcomes)
    /\ [][/\ \A t \in DOMAIN tasks : TaskEnded(t) => tasks'[t] = tasks[t]
          /\ \A j \in DOMAIN jobs : JobEnded(j) => jobs'[j] = jobs[j]]_vars

(***************************************************************************)
(* Properties of create_comment and its scheduling.                        *)
(***************************************************************************)
\* C25: with the broker reachable, a create_comment request queues a task
\* exactly when moderation allowed the comment and the post it read has
\* auto-reply on: then the comment is stored and one task is queued for the
\* new comment's id, the post's id and the post's auto_reply_delay; in every
\* other case no task is queued.
SchedulesIffAccepted ==
    [][\A r \in DOMAIN inflight, ext \in RouterAnswers :
          CreateCommentFinish(r, ext, TRUE) =>
              IF resp'.verdict["is_appropriate"] /\ inflight[r].post.auto_reply_enabled
              THEN /\ resp'.stored \in DOMAIN comments' \ DOMAIN comments
                   /\ DOMAIN tasks' \ DOMAIN tasks = {resp'.task}
                   /\ tasks'[resp'.task].comment_id = resp'.stored
                   /\ tasks'[resp'.task].post_id = inflight[r].post_id
                   /\ tasks'[resp'.task].delay_seconds =
                          inflight[r].post.auto_reply_delay
              ELSE tasks' = tasks]_vars

\* the comments the runs of the coroutine have stored
StoredByJobs == {jobs[k].created : k \in DOMAIN jobs} \ {0}

\* C26: a run of the job ends with already_replied only when the guard found
\* a comment that a run of the job had stored: a comment stored through
\* crud.create_comment, by the post's author or anyone else and whatever
\* its text, does not count.
GuardCountsOnlyReplies ==
    \A j \in DOMAIN jobs :
        (jobs[j].pc = "done" /\ jobs[j].outcome = "already_replied") =>
            existing_auto_reply(jobs[j].post_id, jobs[j].post_author,
                                jobs[j].comment_created_at) \cap StoredByJobs # {}

CommentsHaveTheirPost ==
    \A c \in DOMAIN comments : comments[c].post_id \in DOMAIN posts

HeldByAnother(req) ==
    IF "email" \in DOMAIN req.request
    THEN get_user_by_email(req.request.email)
             \ (IF req.op = "update_profile" THEN {req.user_id} ELSE {})
    ELSE {}

\* C30: no two stored users ever share an email, and a register or
\* update-profile request that names an email held by another user when it
\* is answered is answered with 400 and leaves the users as they were, also
\* when it passed its existence check before the other user was committed.
EmailsAreUnique ==
    /\ [](unique_email(users))
    /\ [][\A r \in DOMAIN inflight \ DOMAIN inflight' :
              HeldByAnother(inflight[r]) # {} =>
                  resp'.status = 400 /\ users' = users]_vars
    /\ [][(resp' # resp /\ resp'.status = 400) => users' = users]_vars

====
